---- MODULE Spec2Model ----
(***************************************************************************)
(* Model of the budget-constrained furniture combination optimizer         *)
(* (furniture_combination_optimizer.py).                                   *)
(*                                                                         *)
(* Money is counted in cents, so that round(x, 2) of the price estimator   *)
(* is an integer operation.  Similarity scores are integers (a fixed-point *)
(* reading of the CSV column).  A Python dict is a sequence of entries in  *)
(* insertion order, or a function when only lookups are made on it.        *)
(*                                                                         *)
(* Five specifications share the state: Spec (main() up to                 *)
(* generate_combinations, and a second call of it), MainSpec (all of       *)
(* main() on the worked example), ReloadSpec (load_similarity_results      *)
(* called again), RepeatSpec (main() run repeatedly over one log) and      *)
(* ConcurrentSpec (the status updates of concurrently running stages).     *)
(*                                                                         *)
(* Of the except branches, those modelled are: a budget cell that does not *)
(* parse, a similarity_score that is not a number, a combinations file     *)
(* that cannot be created, and a master log that cannot be updated.        *)
(***************************************************************************)
EXTENDS Integers, Sequences, FiniteSets, TLC

VARIABLES
    pc,                  \* position of main() / of the caller
    budget,              \* self.budget, in cents
    query_number,        \* self.query_number (0 models None)
    similarity_results,  \* self.similarity_results: <<[furniture_type, items]>>
    catalog,             \* the master catalog file read by get_furniture_prices
    price_lookup,        \* the price map main() passes to generate_combinations
    combinations,        \* the list generate_combinations returned last
    raw_evaluated,       \* iterations of the product loop in the last run
    runs,                \* completed calls of generate_combinations
    master_log,          \* querries/master_querry_log.csv: a sequence of rows
    combination_files,   \* querries/query_N/furniture_combinations.csv, per N
    csv_path,            \* what save_combinations_to_csv returned to main()
    invoked,             \* the methods main() has called in this run
    reported,            \* the branch main() left through
    observed,            \* outcomes of the runs that ended without combinations
    printed,             \* the report print_top_combinations rendered last
    similarity_csv,      \* the similarity_results.csv read by the last load
    stages               \* pipeline processes updating the master log

vars == <<pc, budget, query_number, similarity_results, catalog, price_lookup,
          combinations, raw_evaluated, runs, master_log, combination_files,
          csv_path, invoked, reported, observed, printed, similarity_csv, stages>>

----------------------------------------------------------------------------
(* Bounds of the model                                                     *)

MaxRows == 4            \* rows of a similarity_results.csv
MaxRuns == 2            \* calls of generate_combinations on one instance
MaxTopN == 2            \* top_n a caller passes to print_top_combinations
MaxLogRows == 2         \* rows of the master query log

(* Program constants                                                       *)

TopK == 3               \* .head(3)
RankBase == 4           \* (4 - rank)
RankDivisor == 3        \* / 3
DefaultMin == 200
DefaultMax == 800
TopN == 5
NoneQuery == 0

(* Input fixtures                                                          *)

ImageNames == {"sofa_extracted_grayscale.png", "table_extracted_grayscale.png"}
CatalogNumbers == {101, 102, 103}
SimilarityScores == {1, 2}
QueryNumbers == {1}
BudgetStrings == { <<"$", "1", ",", "0", "0", "0">>,
                   <<" ", "$", "3", "5", "0", "0">>,
                   <<"a", "b", "c">> }

----------------------------------------------------------------------------
(* Generic helpers                                                         *)

Digits == <<"0", "1", "2", "3", "4", "5", "6", "7", "8", "9">>

IsDigit(ch) == \E d \in 1..10 : Digits[d] = ch

DigitValue(ch) == (CHOOSE d \in 1..10 : Digits[d] = ch) - 1

RECURSIVE LStrip(_)
LStrip(s) == IF s # <<>> /\ Head(s) = " " THEN LStrip(Tail(s)) ELSE s

RECURSIVE RStrip(_)
RStrip(s) ==
    IF s # <<>> /\ s[Len(s)] = " " THEN RStrip(SubSeq(s, 1, Len(s) - 1)) ELSE s

RECURSIVE DecimalValue(_)
DecimalValue(s) ==
    IF s = <<>> THEN 0
    ELSE 10 * DecimalValue(SubSeq(s, 1, Len(s) - 1)) + DigitValue(s[Len(s)])

----------------------------------------------------------------------------
(* parse_budget: strip "$" and ",", trim, float(); 0.0 on any exception.   *)
(* The result is in cents.                                                 *)

NotCurrencyMark(ch) == ch \notin {"$", ","}

ParseBudget(budget_str) ==
    LET budget_clean == RStrip(LStrip(SelectSeq(budget_str, NotCurrencyMark)))
    IN  IF budget_clean # <<>> /\ \A i \in 1..Len(budget_clean) : IsDigit(budget_clean[i])
        THEN 100 * DecimalValue(budget_clean)
        ELSE 0

----------------------------------------------------------------------------
(* The master query log and check_master_query_log                         *)

(* .str.lower() on the status column *)
LowerStatus(status) ==
    CASE status = "No" -> "no"
      [] status = "NO" -> "no"
      [] status = "Yes" -> "yes"
      [] status = "YES" -> "yes"
      [] OTHER -> status

(* df[df['selected_sufficed'].str.lower() == 'no'] *)
PendingSelection(log) ==
    SelectSeq(log, LAMBDA row : LowerStatus(row.selected_sufficed) = "no")

(* pandas reads a column whose cells are all numerals as numbers, not text *)
BudgetColumnNumeric(log) ==
    \A k \in 1..Len(log) :
        log[k].budget # <<>> /\ \A i \in 1..Len(log[k].budget) : IsDigit(log[k].budget[i])

(* self.parse_budget(latest_query['budget']): a number has no .replace,    *)
(* the except branch then returns 0.0                                      *)
LatestBudget(log) ==
    LET pending_selection == PendingSelection(log)
        latest_query == pending_selection[Len(pending_selection)]
    IN  IF BudgetColumnNumeric(log) THEN 0 ELSE ParseBudget(latest_query.budget)

LatestQueryNumber(log) ==
    LET pending_selection == PendingSelection(log)
    IN  pending_selection[Len(pending_selection)].request_number

LogRow(n, budget_str, selected) ==
    [request_number |-> n, budget |-> budget_str, selected_sufficed |-> selected,
     similarity_sufficed |-> "yes", extraction_sufficed |-> "yes"]

(* logs with one pending query *)
PendingLogs == {<<LogRow(n, b, "no")>> : n \in QueryNumbers, b \in BudgetStrings}

----------------------------------------------------------------------------
(* similarity_results.csv as the similarity search writes it: the rows of  *)
(* one image are contiguous, carry rank 1, 2, ... in that order, name      *)
(* different catalog items and come best match first.                      *)

CsvTriples == ImageNames \X CatalogNumbers \X SimilarityScores

RankInFile(t, k) == Cardinality({j \in 1..k : t[j][1] = t[k][1]})

CsvRows(t) ==
    [k \in 1..Len(t) |-> [image_name |-> t[k][1],
                          catalog_number |-> t[k][2],
                          similarity_score |-> t[k][3],
                          rank |-> RankInFile(t, k)]]

Contiguous(t) ==
    \A i, j \in 1..Len(t) :
        (i < j /\ t[i][1] = t[j][1]) => \A m \in i..j : t[m][1] = t[i][1]

DistinctItems(t) ==
    \A i, j \in 1..Len(t) : (i < j /\ t[i][1] = t[j][1]) => t[i][2] # t[j][2]

BestFirst(t) ==
    \A i, j \in 1..Len(t) : (i < j /\ t[i][1] = t[j][1]) => t[i][3] >= t[j][3]

CsvFilesOver(triples) ==
    UNION {{CsvRows(t) : t \in {u \in [1..n -> triples] :
                                    Contiguous(u) /\ DistinctItems(u) /\ BestFirst(u)}}
           : n \in 0..MaxRows}

CsvFiles == CsvFilesOver(CsvTriples)

(* image_name.replace('_extracted_grayscale.png', '') *)
FurnitureTypeOf(image_name) ==
    CASE image_name = "sofa_extracted_grayscale.png" -> "sofa"
      [] image_name = "table_extracted_grayscale.png" -> "table"
      [] OTHER -> image_name

(* df['image_name'].unique(): first occurrences, in file order *)
UniqueImages(rows) ==
    LET firsts == SelectSeq([k \in 1..Len(rows) |-> k],
                            LAMBDA k : \A j \in 1..(k - 1) :
                                          rows[j].image_name # rows[k].image_name)
    IN  [i \in 1..Len(firsts) |-> rows[firsts[i]].image_name]

Head3(s) == SubSeq(s, 1, IF Len(s) < TopK THEN Len(s) ELSE TopK)

(* the dict load_similarity_results builds, as a sequence of entries *)
LoadedResults(rows) ==
    LET images == UniqueImages(rows)
    IN  [i \in 1..Len(images) |->
            LET furniture_results ==
                    Head3(SelectSeq(rows, LAMBDA r : r.image_name = images[i]))
            IN  [furniture_type |-> FurnitureTypeOf(images[i]),
                 items |-> [j \in 1..Len(furniture_results) |->
                              [catalog_number |-> furniture_results[j].catalog_number,
                               similarity_score |-> furniture_results[j].similarity_score,
                               rank |-> furniture_results[j].rank]]]]

----------------------------------------------------------------------------
(* Price estimation                                                        *)

(* price_ranges, in dollars; None for a type the table does not list *)
PriceRangeMin(base_type) ==
    CASE base_type = "sofa" -> 800
      [] base_type = "chair" -> 200
      [] base_type = "table" -> 300
      [] base_type = "lamp" -> 100
      [] base_type = "rug" -> 200
      [] base_type = "bench" -> 300
      [] base_type = "nightstand" -> 150
      [] base_type = "lighting" -> 100
      [] OTHER -> DefaultMin

PriceRangeMax(base_type) ==
    CASE base_type = "sofa" -> 2500
      [] base_type = "chair" -> 800
      [] base_type = "table" -> 1200
      [] base_type = "lamp" -> 400
      [] base_type = "rug" -> 800
      [] base_type = "bench" -> 1000
      [] base_type = "nightstand" -> 600
      [] base_type = "lighting" -> 400
      [] OTHER -> DefaultMax

(* Variant: the rank factor grows with the rank.                           *)
EstimatedPriceForType_Ascending(furniture_type, rank) ==
    LET min_price == PriceRangeMin(furniture_type)
        max_price == PriceRangeMax(furniture_type)
        price_range == max_price - min_price
        numerator == 100 * price_range * (rank + 1)
    IN  100 * min_price + ((2 * numerator + RankDivisor) \div (2 * RankDivisor))

(* round(min_price + price_range * (4 - rank) / 3, 2), in cents.  The      *)
(* fraction has denominator 3, so rounding never meets a tie.              *)
EstimatedPriceForType(furniture_type, rank) ==
    LET min_price == PriceRangeMin(furniture_type)
        max_price == PriceRangeMax(furniture_type)
        price_range == max_price - min_price
        numerator == 100 * price_range * (RankBase - rank)
    IN  100 * min_price + ((2 * numerator + RankDivisor) \div (2 * RankDivisor))

(* the (furniture_type, i, catalog_number) triples in the order            *)
(* _get_estimated_prices visits them                                       *)
RECURSIVE EnumeratedItems(_)
EnumeratedItems(results) ==
    IF results = <<>> THEN <<>>
    ELSE [i \in 1..Len(Head(results).items) |->
             [furniture_type |-> Head(results).furniture_type,
              index |-> i - 1,
              catalog_number |-> Head(results).items[i].catalog_number]]
         \o EnumeratedItems(Tail(results))

(* _get_estimated_prices: a later assignment to the same key overwrites    *)
EstimatedPrices(results) ==
    LET visited == EnumeratedItems(results)
        keys == {visited[k].catalog_number : k \in 1..Len(visited)}
        last(c) == CHOOSE k \in 1..Len(visited) :
                      /\ visited[k].catalog_number = c
                      /\ \A m \in (k + 1)..Len(visited) : visited[m].catalog_number # c
    IN  [c \in keys |->
            EstimatedPriceForType(visited[last(c)].furniture_type, visited[last(c)].index)]

(* matched_items of get_furniture_prices *)
MatchedItems(results, lookup) ==
    LET visited == EnumeratedItems(results)
    IN  Cardinality({k \in 1..Len(visited) : visited[k].catalog_number \in DOMAIN lookup})

(* get_furniture_prices for a catalog file [exists, prices] *)
FurniturePrices(results, catalog_file) ==
    IF ~catalog_file.exists THEN EstimatedPrices(results)
    ELSE IF MatchedItems(results, catalog_file.prices) = 0 THEN EstimatedPrices(results)
    ELSE catalog_file.prices

(* the master catalog files considered: no file, or a file that lists     *)
(* some of the items at their catalog price (in cents)                     *)
CatalogPrice(catalog_number) ==
    CASE catalog_number = 101 -> 50000
      [] catalog_number = 102 -> 150000
      [] OTHER -> 50000

CatalogFiles ==
    {[exists |-> FALSE, prices |-> <<>>]} \cup
    {[exists |-> TRUE, prices |-> [c \in S |-> CatalogPrice(c)]]
        : S \in SUBSET CatalogNumbers}

----------------------------------------------------------------------------
(* generate_combinations                                                   *)

(* Variant: the enumeration stops one tuple short. *)
RECURSIVE Product_OneShort(_)
Product_OneShort(lists) ==
    IF lists = <<>> THEN << <<>> >>
    ELSE LET first == Head(lists)
             rest == Product_OneShort(Tail(lists))
             m == Len(rest)
         IN  [k \in 1..(Len(first) * m - 1) |->
                 <<first[((k - 1) \div m) + 1]>> \o rest[((k - 1) % m) + 1]]

(* itertools.product over the lists: tuples in lexicographic order of positions,  *)
(* the last list advancing fastest                                         *)
RECURSIVE Product(_)
Product(lists) ==
    IF lists = <<>> THEN << <<>> >>
    ELSE LET first == Head(lists)
             rest == Product(Tail(lists))
             m == Len(rest)
         IN  [k \in 1..(Len(first) * m) |->
                 <<first[((k - 1) \div m) + 1]>> \o rest[((k - 1) % m) + 1]]

(* price_lookup.get(catalog_number, 0) *)
LookupPrice(lookup, catalog_number) ==
    IF catalog_number \in DOMAIN lookup THEN lookup[catalog_number] ELSE 0

(* Variant: every item is labelled with the first furniture type. *)
CombinationDetails_FirstType(combination, furniture_types, lookup) ==
    [i \in 1..Len(combination) |->
        [furniture_type |-> furniture_types[1],
         catalog_number |-> combination[i].catalog_number,
         similarity_score |-> combination[i].similarity_score,
         rank |-> combination[i].rank,
         price |-> IF combination[i].catalog_number \in DOMAIN lookup
                   THEN lookup[combination[i].catalog_number] ELSE 0]]

(* combination_details of one tuple of the product *)
CombinationDetails(combination, furniture_types, lookup) ==
    [i \in 1..Len(combination) |->
        [furniture_type |-> furniture_types[i],
         catalog_number |-> combination[i].catalog_number,
         similarity_score |-> combination[i].similarity_score,
         rank |-> combination[i].rank,
         price |-> LookupPrice(lookup, combination[i].catalog_number)]]

(* Variant: the total is the price of the first item only.                 *)
TotalPrice_FirstOnly(details) ==
    IF details = <<>> THEN 0 ELSE details[1].price

(* total_price += price, over the items in order *)
RECURSIVE TotalPrice(_)
TotalPrice(details) ==
    IF details = <<>> THEN 0
    ELSE TotalPrice(SubSeq(details, 1, Len(details) - 1)) + details[Len(details)].price

(* total_similarity += similarity_score, over the items in order *)
RECURSIVE TotalSimilarity(_)
TotalSimilarity(details) ==
    IF details = <<>> THEN 0
    ELSE TotalSimilarity(SubSeq(details, 1, Len(details) - 1))
         + details[Len(details)].similarity_score

(* Variants of the budget test: no ceiling; a strict ceiling; no floor;    *)
(* a floor that admits a total of zero.                                    *)
WithinBudget_NoCeiling(total_price, b) == total_price > 0

WithinBudget_Strict(total_price, b) == total_price < b /\ total_price > 0

WithinBudget_NoFloor(total_price, b) == total_price <= b

WithinBudget_FloorInclusive(total_price, b) == total_price <= b /\ total_price >= 0

(* Variant: only totals above half of the budget pass.                     *)
WithinBudget_UpperHalf(total_price, b) == total_price <= b /\ 2 * total_price > b

(* if total_price <= self.budget and total_price > 0 *)
WithinBudget(total_price, b) == total_price <= b /\ total_price > 0

(* Variant: budget_remaining computed as total_price - budget. *)
CombinationRecord_Swapped(details, b) ==
    [total_price |-> TotalPrice(details),
     total_similarity |-> TotalSimilarity(details),
     items |-> details,
     budget_remaining |-> TotalPrice(details) - b]

(* the dict appended for a tuple that is within budget *)
CombinationRecord(details, b) ==
    [total_price |-> TotalPrice(details),
     total_similarity |-> TotalSimilarity(details),
     items |-> details,
     budget_remaining |-> b - TotalPrice(details)]

(* Variant: ascending order (reverse=True forgotten). *)
RECURSIVE SortBySimilarity_Ascending(_)
SortBySimilarity_Ascending(list) ==
    IF list = <<>> THEN <<>>
    ELSE LET sorted == SortBySimilarity_Ascending(SubSeq(list, 1, Len(list) - 1))
             x == list[Len(list)]
             before == SelectSeq(sorted,
                           LAMBDA c : c.total_similarity <= x.total_similarity)
             after == SelectSeq(sorted,
                           LAMBDA c : c.total_similarity > x.total_similarity)
         IN  before \o <<x>> \o after

(* Variant: sort ascending, then reverse the list; equal keys end up in    *)
(* reverse enumeration order.                                              *)
RECURSIVE SortBySimilarity_ThenReverse(_)
SortBySimilarity_ThenReverse(list) ==
    IF list = <<>> THEN <<>>
    ELSE LET sorted == SortBySimilarity_ThenReverse(SubSeq(list, 1, Len(list) - 1))
             x == list[Len(list)]
             before == SelectSeq(sorted,
                           LAMBDA c : c.total_similarity > x.total_similarity)
             after == SelectSeq(sorted,
                           LAMBDA c : c.total_similarity <= x.total_similarity)
         IN  before \o <<x>> \o after

(* Variant: the list is left in enumeration order.                         *)
SortBySimilarity_Unsorted(list) == list

(* combinations.sort(key=total_similarity, reverse=True): descending and   *)
(* stable, equal keys keep their order                                     *)
RECURSIVE SortBySimilarity(_)
SortBySimilarity(list) ==
    IF list = <<>> THEN <<>>
    ELSE LET sorted == SortBySimilarity(SubSeq(list, 1, Len(list) - 1))
             x == list[Len(list)]
             before == SelectSeq(sorted,
                           LAMBDA c : c.total_similarity >= x.total_similarity)
             after == SelectSeq(sorted,
                           LAMBDA c : c.total_similarity < x.total_similarity)
         IN  before \o <<x>> \o after

(* the tuples the product loop visits, in order *)
RawCombinations(results) ==
    Product([i \in 1..Len(results) |-> results[i].items])

FurnitureTypes(results) == [i \in 1..Len(results) |-> results[i].furniture_type]

(* a similarity_score cell that is text: total_similarity += raises        *)
BadScore == -1

(* the except branch of generate_combinations is taken: the first tuple    *)
(* evaluated meets a score that is not a number                            *)
Raises(results) ==
    /\ RawCombinations(results) # <<>>
    /\ \E i \in 1..Len(results) : \E j \in 1..Len(results[i].items) :
          results[i].items[j].similarity_score = BadScore

(* the list generate_combinations returns *)
GeneratedCombinations(results, lookup, b) ==
    LET raw == RawCombinations(results)
        furniture_types == FurnitureTypes(results)
        evaluated == [k \in 1..Len(raw) |->
                         CombinationRecord(
                             CombinationDetails(raw[k], furniture_types, lookup), b)]
        kept == SelectSeq(evaluated, LAMBDA c : WithinBudget(c.total_price, b))
    IN  IF Raises(results) THEN <<>> ELSE SortBySimilarity(kept)

(* iterations of the product loop that were started *)
RawEvaluated(results) ==
    IF Raises(results) THEN 1 ELSE Len(RawCombinations(results))

----------------------------------------------------------------------------
(* save_combinations_to_csv and update_selection_status                    *)

NoFile == [exists |-> FALSE, rows |-> <<>>]

SavedPath == "furniture_combinations.csv"

(* the rows written for the combinations from position rank on *)
RECURSIVE CombinationRows(_, _)
CombinationRows(list, rank) ==
    IF list = <<>> THEN <<>>
    ELSE LET combination == Head(list)
         IN  [i \in 1..Len(combination.items) |->
                 [combination_rank |-> rank,
                  total_price |-> combination.total_price,
                  total_similarity |-> combination.total_similarity,
                  budget_remaining |-> combination.budget_remaining,
                  furniture_type |-> combination.items[i].furniture_type,
                  catalog_number |-> combination.items[i].catalog_number,
                  similarity_score |-> combination.items[i].similarity_score,
                  item_rank |-> combination.items[i].rank,
                  price |-> combination.items[i].price]]
             \o CombinationRows(Tail(list), rank + 1)

(* for rank, combination in enumerate(combinations, 1) *)
WrittenRows(list) == CombinationRows(list, 1)

(* Variant: the status is written to every row.                            *)
UpdatedLog_AllRows(log, n, status) ==
    [k \in 1..Len(log) |-> [log[k] EXCEPT !.selected_sufficed = status]]

(* df.loc[df['request_number'] == self.query_number, 'selected_sufficed'] = status *)
UpdatedLog(log, n, status) ==
    [k \in 1..Len(log) |->
        IF log[k].request_number = n
        THEN [log[k] EXCEPT !.selected_sufficed = status]
        ELSE log[k]]

(* the selected_sufficed value the log holds for query n *)
SelectionStatus(log, n) ==
    LET rows == SelectSeq(log, LAMBDA row : row.request_number = n)
    IN  IF rows = <<>> THEN "missing" ELSE rows[Len(rows)].selected_sufficed

----------------------------------------------------------------------------
(* The state machine.  Spec is main() up to generate_combinations, with a  *)
(* caller that runs generate_combinations again on the same instance.      *)

CsvInputs ==
    {[exists |-> FALSE, rows |-> <<>>]} \cup {[exists |-> TRUE, rows |-> r] : r \in CsvFiles}

NoCatalog == [exists |-> FALSE, prices |-> <<>>]

(* no file read yet; earlier holds the rows of the file read before *)
NoCsv == [exists |-> FALSE, rows |-> <<>>, earlier |-> <<>>]

(* nothing rendered yet *)
NoReport == [top_n |-> 0, entries |-> <<>>]

(* no pipeline process is updating the log *)
NoStages == <<>>

AllQueryNumbers == 1..MaxLogRows

(* a new FurnitureCombinationOptimizer, in a world whose log is one of logs *)
InitOver(logs) ==
    /\ pc = "start"
    /\ budget = 0
    /\ query_number = NoneQuery
    /\ similarity_results = <<>>
    /\ catalog = NoCatalog
    /\ price_lookup = <<>>
    /\ combinations = <<>>
    /\ raw_evaluated = 0
    /\ runs = 0
    /\ master_log \in logs
    /\ combination_files = [n \in AllQueryNumbers |-> NoFile]
    /\ csv_path = ""
    /\ invoked = {}
    /\ reported = "running"
    /\ observed = {}
    /\ printed = NoReport
    /\ similarity_csv = NoCsv
    /\ stages = NoStages

Init == InitOver(PendingLogs)

(* check_master_query_log returning the latest pending query *)
CheckMasterQueryLog ==
    /\ pc = "start"
    /\ PendingSelection(master_log) # <<>>
    /\ budget' = LatestBudget(master_log)
    /\ query_number' = LatestQueryNumber(master_log)
    /\ invoked' = invoked \cup {"check_master_query_log"}
    /\ IF query_number' = 0
       THEN pc' = "done" /\ reported' = "no_pending"
       ELSE pc' = "checked" /\ reported' = reported
    /\ UNCHANGED <<similarity_results, catalog, price_lookup, combinations,
                   raw_evaluated, runs, master_log, combination_files, csv_path,
                   observed>>
    /\ UNCHANGED <<printed, similarity_csv, stages>>

(* check_master_query_log returning None: empty log or nothing pending *)
CheckMasterQueryLogNone ==
    /\ pc = "start"
    /\ PendingSelection(master_log) = <<>>
    /\ invoked' = invoked \cup {"check_master_query_log"}
    /\ pc' = "done"
    /\ reported' = "no_pending"
    /\ UNCHANGED <<budget, query_number, similarity_results, catalog, price_lookup,
                   combinations, raw_evaluated, runs, master_log, combination_files,
                   csv_path, observed>>
    /\ UNCHANGED <<printed, similarity_csv, stages>>

(* load_similarity_results on a readable, non-empty file among inputs *)
LoadSimilarityResultsFrom(inputs) ==
    /\ pc = "checked"
    /\ \E csv \in inputs :
          /\ csv.exists /\ csv.rows # <<>>
          /\ similarity_results' = LoadedResults(csv.rows)
          /\ similarity_csv' = [exists |-> TRUE, rows |-> csv.rows, earlier |-> <<>>]
    /\ invoked' = invoked \cup {"load_similarity_results"}
    /\ pc' = "loaded"
    /\ UNCHANGED <<budget, query_number, catalog, price_lookup, combinations,
                   raw_evaluated, runs, master_log, combination_files, csv_path,
                   reported, observed>>
    /\ UNCHANGED <<printed, stages>>

LoadSimilarityResults == LoadSimilarityResultsFrom(CsvInputs)

(* load_similarity_results returning False: main() returns *)
LoadSimilarityResultsFailsFrom(inputs) ==
    /\ pc = "checked"
    /\ \E csv \in inputs : ~csv.exists \/ csv.rows = <<>>
    /\ invoked' = invoked \cup {"load_similarity_results"}
    /\ pc' = "done"
    /\ reported' = "load_failed"
    /\ UNCHANGED <<budget, query_number, similarity_results, catalog, price_lookup,
                   combinations, raw_evaluated, runs, master_log, combination_files,
                   csv_path, observed>>
    /\ UNCHANGED <<printed, similarity_csv, stages>>

LoadSimilarityResultsFails == LoadSimilarityResultsFailsFrom(CsvInputs)

(* get_furniture_prices on a catalog among catalog_files, and main()'s     *)
(* test of its result                                                      *)
GetFurniturePricesFrom(catalog_files) ==
    /\ pc = "loaded"
    /\ \E catalog_file \in catalog_files :
          /\ catalog' = catalog_file
          /\ price_lookup' = FurniturePrices(similarity_results, catalog_file)
    /\ invoked' = invoked \cup {"get_furniture_prices"}
    /\ IF DOMAIN price_lookup' = {}
       THEN pc' = "done" /\ reported' = "prices_failed"
       ELSE pc' = "priced" /\ reported' = reported
    /\ UNCHANGED <<budget, query_number, similarity_results, combinations,
                   raw_evaluated, runs, master_log, combination_files, csv_path,
                   observed>>
    /\ UNCHANGED <<printed, similarity_csv, stages>>

GetFurniturePrices == GetFurniturePricesFrom(CatalogFiles)

(* Variant: the result list is kept on the instance and not cleared at the *)
(* start of a run.                                                         *)
GenerateCombinations_Accumulating ==
    /\ pc \in {"priced", "generated"}
    /\ runs < MaxRuns
    /\ combinations' = combinations
                        \o GeneratedCombinations(similarity_results, price_lookup, budget)
    /\ raw_evaluated' = RawEvaluated(similarity_results)
    /\ runs' = runs + 1
    /\ invoked' = invoked \cup {"generate_combinations"}
    /\ pc' = "generated"
    /\ UNCHANGED <<budget, query_number, similarity_results, catalog, price_lookup,
                   master_log, combination_files, csv_path, reported, observed>>
    /\ UNCHANGED <<printed, similarity_csv, stages>>

(* Variant: the price of the best combination is deducted from the budget *)
(* kept on the instance.                                                   *)
GenerateCombinationsAt_Spending(positions) ==
    /\ pc \in positions
    /\ runs < MaxRuns
    /\ combinations' = GeneratedCombinations(similarity_results, price_lookup, budget)
    /\ budget' = IF combinations' = <<>> THEN budget
                 ELSE budget - combinations'[1].total_price
    /\ raw_evaluated' = RawEvaluated(similarity_results)
    /\ runs' = runs + 1
    /\ invoked' = invoked \cup {"generate_combinations"}
    /\ pc' = "generated"
    /\ UNCHANGED <<query_number, similarity_results, catalog, price_lookup,
                   master_log, combination_files, csv_path, reported, observed>>
    /\ UNCHANGED <<printed, similarity_csv, stages>>

(* generate_combinations(price_lookup), called at one of positions *)
GenerateCombinationsAt(positions) ==
    /\ pc \in positions
    /\ runs < MaxRuns
    /\ combinations' = GeneratedCombinations(similarity_results, price_lookup, budget)
    /\ raw_evaluated' = RawEvaluated(similarity_results)
    /\ runs' = runs + 1
    /\ invoked' = invoked \cup {"generate_combinations"}
    /\ pc' = "generated"
    /\ UNCHANGED <<budget, query_number, similarity_results, catalog, price_lookup,
                   master_log, combination_files, csv_path, reported, observed>>
    /\ UNCHANGED <<printed, similarity_csv, stages>>

(* generate_combinations, by main() or again by a caller holding the instance *)
GenerateCombinations == GenerateCombinationsAt({"priced", "generated"})

Next ==
    \/ CheckMasterQueryLog
    \/ LoadSimilarityResults
    \/ LoadSimilarityResultsFails
    \/ GetFurniturePrices
    \/ GenerateCombinations

Spec == Init /\ [][Next]_vars

----------------------------------------------------------------------------
(* load_similarity_results called again on an instance that holds the      *)
(* results of an earlier query, over files with up to four matches of one  *)
(* image.                                                                  *)

ReloadTriples ==
    { <<"sofa_extracted_grayscale.png", 101, 2>>,
      <<"sofa_extracted_grayscale.png", 102, 2>>,
      <<"sofa_extracted_grayscale.png", 103, 1>>,
      <<"sofa_extracted_grayscale.png", 104, 1>>,
      <<"table_extracted_grayscale.png", 101, 1>> }

ReloadInputs ==
    {[exists |-> FALSE, rows |-> <<>>]}
        \cup {[exists |-> TRUE, rows |-> r] : r \in CsvFilesOver(ReloadTriples)}

(* Variant: the store is not emptied before the file is read, so a         *)
(* category the new file lacks keeps its candidates.                       *)
LoadSimilarityResultsAgainFrom_Retaining(inputs) ==
    /\ pc = "loaded"
    /\ \E csv \in inputs :
          /\ csv.exists /\ csv.rows # <<>>
          /\ LET loaded == LoadedResults(csv.rows)
                 types == {loaded[k].furniture_type : k \in 1..Len(loaded)}
                 entry(t) == loaded[CHOOSE k \in 1..Len(loaded) :
                                       loaded[k].furniture_type = t]
                 kept == [k \in 1..Len(similarity_results) |->
                            IF similarity_results[k].furniture_type \in types
                            THEN entry(similarity_results[k].furniture_type)
                            ELSE similarity_results[k]]
                 known == {similarity_results[k].furniture_type
                              : k \in 1..Len(similarity_results)}
             IN  similarity_results' =
                     kept \o SelectSeq(loaded, LAMBDA e : e.furniture_type \notin known)
          /\ similarity_csv' = [exists |-> TRUE, rows |-> csv.rows,
                                 earlier |-> similarity_csv.rows]
    /\ UNCHANGED <<pc, budget, query_number, catalog, price_lookup, combinations,
                   raw_evaluated, runs, master_log, combination_files, csv_path,
                   invoked, reported, observed, printed, stages>>

(* load_similarity_results of another query on the same instance: the      *)
(* store is reset before the file is read                                  *)
LoadSimilarityResultsAgainFrom(inputs) ==
    /\ pc = "loaded"
    /\ \E csv \in inputs :
          /\ csv.exists /\ csv.rows # <<>>
          /\ similarity_results' = LoadedResults(csv.rows)
          /\ similarity_csv' = [exists |-> TRUE, rows |-> csv.rows,
                                 earlier |-> similarity_csv.rows]
    /\ UNCHANGED <<pc, budget, query_number, catalog, price_lookup, combinations,
                   raw_evaluated, runs, master_log, combination_files, csv_path,
                   invoked, reported, observed, printed, stages>>

ReloadLoadSimilarityResults == LoadSimilarityResultsFrom(ReloadInputs)

ReloadLoadSimilarityResultsFails == LoadSimilarityResultsFailsFrom(ReloadInputs)

ReloadLoadSimilarityResultsAgain == LoadSimilarityResultsAgainFrom(ReloadInputs)

ReloadNext ==
    \/ CheckMasterQueryLog
    \/ ReloadLoadSimilarityResults
    \/ ReloadLoadSimilarityResultsFails
    \/ ReloadLoadSimilarityResultsAgain

ReloadSpec == Init /\ [][ReloadNext]_vars

----------------------------------------------------------------------------
(* main() as a whole, on the worked example of the specification: sofas    *)
(* 201 ($1,000, similarity 0.9) and 202 ($1,200, 0.8), table 301 ($500,    *)
(* 0.7).  Similarity is counted in tenths, money in cents.                 *)

ScenarioTriples ==
    { <<"sofa_extracted_grayscale.png", 201, 9>>,
      <<"sofa_extracted_grayscale.png", 202, 8>>,
      <<"table_extracted_grayscale.png", 301, 7>>,
      <<"table_extracted_grayscale.png", 301, BadScore>> }

ScenarioInputs ==
    {[exists |-> FALSE, rows |-> <<>>]}
        \cup {[exists |-> TRUE, rows |-> r] : r \in CsvFilesOver(ScenarioTriples)}

ScenarioPrice(catalog_number) ==
    CASE catalog_number = 201 -> 100000
      [] catalog_number = 202 -> 120000
      [] OTHER -> 50000

(* no catalog file, or the catalog that lists the three items *)
ScenarioCatalogs ==
    {NoCatalog,
     [exists |-> TRUE, prices |-> [c \in {201, 202, 301} |-> ScenarioPrice(c)]]}

ScenarioBudgets == { <<"$", "1", ",", "6", "0", "0">>,
                     <<"$", "1", ",", "7", "0", "0">>,
                     <<"$", "1", "0", "0">> }

SelectedValues == {"yes", "no"}

(* a log whose budget column holds digits only, so that read_csv yields    *)
(* numbers, and whose status is capitalised                                *)
NumericLogs == { <<LogRow(1, <<"1", "6", "0", "0">>, "No")>> }

(* master logs of up to MaxLogRows queries, numbered in file order *)
ScenarioLogs ==
    NumericLogs \cup
    UNION {{[k \in 1..n |-> LogRow(k, b[k], s[k])]
               : b \in [1..n -> ScenarioBudgets], s \in [1..n -> SelectedValues]}
           : n \in 0..MaxLogRows}

(* stores a caller of the class assigns to similarity_results directly,    *)
(* with a category that has no candidates                                  *)
AssignedStores ==
    LET sofas == << [catalog_number |-> 201, similarity_score |-> 9, rank |-> 1],
                    [catalog_number |-> 202, similarity_score |-> 8, rank |-> 2] >>
    IN  { << [furniture_type |-> "sofa", items |-> sofas],
             [furniture_type |-> "table", items |-> <<>>] >>,
          << [furniture_type |-> "sofa", items |-> <<>>],
             [furniture_type |-> "table", items |-> <<>>] >> }

MainInit == InitOver(ScenarioLogs)

MainLoadSimilarityResults == LoadSimilarityResultsFrom(ScenarioInputs)

MainLoadSimilarityResultsFails == LoadSimilarityResultsFailsFrom(ScenarioInputs)

(* the store is populated by assignment instead of load_similarity_results *)
AssignSimilarityResults ==
    /\ pc = "checked"
    /\ similarity_results' \in AssignedStores
    /\ pc' = "loaded"
    /\ UNCHANGED <<budget, query_number, catalog, price_lookup, combinations,
                   raw_evaluated, runs, master_log, combination_files, csv_path,
                   invoked, reported, observed>>
    /\ UNCHANGED <<printed, similarity_csv, stages>>

MainGetFurniturePrices == GetFurniturePricesFrom(ScenarioCatalogs)

(* combinations = optimizer.generate_combinations(price_lookup) *)
MainGenerateCombinations == GenerateCombinationsAt({"priced"})

(* some category of the store has no candidates *)
EmptyCategory(results) == \E i \in 1..Len(results) : results[i].items = <<>>

(* what a caller sees of a run that ended without combinations *)
Outcome(results, returned, log, n) ==
    [kind |-> IF Raises(results) \/ EmptyCategory(results)
              THEN "failed" ELSE "valid_empty",
     returned |-> returned,
     status |-> SelectionStatus(log, n)]

(* Variant: the branch records 'yes'.                                      *)
NoCombinationsFound_Yes ==
    /\ pc = "generated"
    /\ combinations = <<>>
    /\ master_log' = UpdatedLog(master_log, query_number, "yes")
    /\ invoked' = invoked \cup {"update_selection_status"}
    /\ reported' = "no_combinations"
    /\ observed' = observed \cup
           {Outcome(similarity_results, combinations, master_log', query_number)}
    /\ pc' = "done"
    /\ UNCHANGED <<budget, query_number, similarity_results, catalog, price_lookup,
                   combinations, raw_evaluated, runs, combination_files, csv_path>>
    /\ UNCHANGED <<printed, similarity_csv, stages>>

(* if not combinations: update_selection_status("no"); return *)
NoCombinationsFound ==
    /\ pc = "generated"
    /\ combinations = <<>>
    /\ master_log' = UpdatedLog(master_log, query_number, "no")
    /\ invoked' = invoked \cup {"update_selection_status"}
    /\ reported' = "no_combinations"
    /\ observed' = observed \cup
           {Outcome(similarity_results, combinations, master_log', query_number)}
    /\ pc' = "done"
    /\ UNCHANGED <<budget, query_number, similarity_results, catalog, price_lookup,
                   combinations, raw_evaluated, runs, combination_files, csv_path>>
    /\ UNCHANGED <<printed, similarity_csv, stages>>

(* Variant: every combination of the list is rendered.                     *)
TopCombinations_All(list, top_n) ==
    [i \in 1..Len(list) |->
        [number |-> i,
         total_price |-> list[i].total_price,
         total_similarity |-> list[i].total_similarity,
         budget_remaining |-> list[i].budget_remaining,
         items |-> list[i].items]]

(* for i, combination in enumerate(combinations[:top_n], 1): the entries   *)
(* of the report, for top_n >= 0                                           *)
TopCombinations(list, top_n) ==
    LET shown == IF top_n < Len(list) THEN top_n ELSE Len(list)
    IN  [i \in 1..shown |->
            [number |-> i,
             total_price |-> list[i].total_price,
             total_similarity |-> list[i].total_similarity,
             budget_remaining |-> list[i].budget_remaining,
             items |-> list[i].items]]

(* print_top_combinations(combinations, top_n), leaving the caller at next *)
PrintTopCombinationsWith(top_n, next) ==
    /\ pc = "generated"
    /\ combinations # <<>>
    /\ printed' = [top_n |-> top_n, entries |-> TopCombinations(combinations, top_n)]
    /\ invoked' = invoked \cup {"print_top_combinations"}
    /\ pc' = next
    /\ UNCHANGED <<budget, query_number, similarity_results, catalog, price_lookup,
                   combinations, raw_evaluated, runs, master_log, combination_files,
                   csv_path, reported, observed, similarity_csv, stages>>

(* main(): optimizer.print_top_combinations(combinations, top_n=5) *)
PrintTopCombinations == PrintTopCombinationsWith(TopN, "printed")

(* a caller of the class that asks for a report of another length and      *)
(* stops there                                                             *)
CallPrintTopCombinations ==
    \E top_n \in 0..MaxTopN : PrintTopCombinationsWith(top_n, "shown")

(* Variant: ranks are counted from 0.                                      *)
SaveCombinationsToCsv_FromZero ==
    /\ pc = "printed"
    /\ combination_files' =
           [combination_files EXCEPT ![query_number] =
               [exists |-> TRUE, rows |-> CombinationRows(combinations, 0)]]
    /\ csv_path' = SavedPath
    /\ invoked' = invoked \cup {"save_combinations_to_csv"}
    /\ pc' = "saved"
    /\ UNCHANGED <<budget, query_number, similarity_results, catalog, price_lookup,
                   combinations, raw_evaluated, runs, master_log, reported, observed>>
    /\ UNCHANGED <<printed, similarity_csv, stages>>

(* save_combinations_to_csv writing the file and returning its path *)
SaveCombinationsToCsv ==
    /\ pc = "printed"
    /\ combination_files' =
           [combination_files EXCEPT ![query_number] =
               [exists |-> TRUE, rows |-> WrittenRows(combinations)]]
    /\ csv_path' = SavedPath
    /\ invoked' = invoked \cup {"save_combinations_to_csv"}
    /\ pc' = "saved"
    /\ UNCHANGED <<budget, query_number, similarity_results, catalog, price_lookup,
                   combinations, raw_evaluated, runs, master_log, reported, observed>>
    /\ UNCHANGED <<printed, similarity_csv, stages>>

(* save_combinations_to_csv failing in makedirs or open: nothing is        *)
(* written, the error is printed and "" is returned                        *)
SaveCombinationsToCsvFails ==
    /\ pc = "printed"
    /\ csv_path' = ""
    /\ invoked' = invoked \cup {"save_combinations_to_csv"}
    /\ pc' = "saved"
    /\ UNCHANGED <<budget, query_number, similarity_results, catalog, price_lookup,
                   combinations, raw_evaluated, runs, master_log, combination_files,
                   reported, observed>>
    /\ UNCHANGED <<printed, similarity_csv, stages>>

(* optimizer.update_selection_status("yes") and the end of main() *)
UpdateSelectionStatus ==
    /\ pc = "saved"
    /\ master_log' = UpdatedLog(master_log, query_number, "yes")
    /\ invoked' = invoked \cup {"update_selection_status"}
    /\ reported' = "success"
    /\ pc' = "done"
    /\ UNCHANGED <<budget, query_number, similarity_results, catalog, price_lookup,
                   combinations, raw_evaluated, runs, combination_files, csv_path,
                   observed>>
    /\ UNCHANGED <<printed, similarity_csv, stages>>

(* update_selection_status failing in read_csv or when the log cannot be   *)
(* opened for writing: the error is printed, the log is as it was, and     *)
(* main() goes on as after an update                                       *)
UpdateSelectionStatusFails ==
    /\ \/ pc = "generated" /\ combinations = <<>>
       \/ pc = "saved"
    /\ invoked' = invoked \cup {"update_selection_status",
                                "update_selection_status_failed"}
    /\ reported' = IF pc = "saved" THEN "success" ELSE "no_combinations"
    /\ pc' = "done"
    /\ UNCHANGED <<budget, query_number, similarity_results, catalog, price_lookup,
                   combinations, raw_evaluated, runs, master_log, combination_files,
                   csv_path, observed, printed, similarity_csv, stages>>

(* main() is executed again, by a new process on any log; only the record  *)
(* of earlier outcomes is carried over                                     *)
NextRun ==
    /\ pc = "done"
    /\ pc' = "start"
    /\ budget' = 0
    /\ query_number' = NoneQuery
    /\ similarity_results' = <<>>
    /\ catalog' = NoCatalog
    /\ price_lookup' = <<>>
    /\ combinations' = <<>>
    /\ raw_evaluated' = 0
    /\ runs' = 0
    /\ master_log' \in ScenarioLogs
    /\ combination_files' = [n \in AllQueryNumbers |-> NoFile]
    /\ csv_path' = ""
    /\ invoked' = {}
    /\ reported' = "running"
    /\ printed' = NoReport
    /\ similarity_csv' = NoCsv
    /\ UNCHANGED <<observed, stages>>

MainNext ==
    \/ CheckMasterQueryLog
    \/ CheckMasterQueryLogNone
    \/ MainLoadSimilarityResults
    \/ MainLoadSimilarityResultsFails
    \/ AssignSimilarityResults
    \/ MainGetFurniturePrices
    \/ MainGenerateCombinations
    \/ NoCombinationsFound
    \/ PrintTopCombinations
    \/ CallPrintTopCombinations
    \/ SaveCombinationsToCsv
    \/ SaveCombinationsToCsvFails
    \/ UpdateSelectionStatus
    \/ UpdateSelectionStatusFails
    \/ NextRun

MainSpec == MainInit /\ [][MainNext]_vars

----------------------------------------------------------------------------
(* main() executed again and again over one master log.  Every query has   *)
(* the similarity file of the worked example and the catalog lists its     *)
(* three items, so whether a query has an affordable combination depends   *)
(* on its budget alone.                                                    *)

QueryFile ==
    [exists |-> TRUE,
     rows |-> CsvRows(<< <<"sofa_extracted_grayscale.png", 201, 9>>,
                         <<"sofa_extracted_grayscale.png", 202, 8>>,
                         <<"table_extracted_grayscale.png", 301, 7>> >>)]

ListedCatalog ==
    [exists |-> TRUE, prices |-> [c \in {201, 202, 301} |-> ScenarioPrice(c)]]

RepeatLoadSimilarityResults == LoadSimilarityResultsFrom({QueryFile})

RepeatGetFurniturePrices == GetFurniturePricesFrom({ListedCatalog})

(* the next execution of main(): a new optimizer, the same log and files *)
RunAgain ==
    /\ pc = "done"
    /\ pc' = "start"
    /\ budget' = 0
    /\ query_number' = NoneQuery
    /\ similarity_results' = <<>>
    /\ catalog' = NoCatalog
    /\ price_lookup' = <<>>
    /\ combinations' = <<>>
    /\ raw_evaluated' = 0
    /\ runs' = 0
    /\ csv_path' = ""
    /\ invoked' = {}
    /\ reported' = "running"
    /\ printed' = NoReport
    /\ similarity_csv' = NoCsv
    /\ UNCHANGED <<master_log, combination_files, observed, stages>>

RepeatNext ==
    \/ CheckMasterQueryLog
    \/ CheckMasterQueryLogNone
    \/ RepeatLoadSimilarityResults
    \/ RepeatGetFurniturePrices
    \/ MainGenerateCombinations
    \/ NoCombinationsFound
    \/ PrintTopCombinations
    \/ SaveCombinationsToCsv
    \/ UpdateSelectionStatus
    \/ RunAgain

(* main() runs to its end and is always started again *)
RepeatSpec == MainInit /\ [][RepeatNext]_vars /\ WF_vars(RepeatNext)

----------------------------------------------------------------------------
(* The pipeline stages as concurrent processes.  Each stage updates its    *)
(* own status column of the shared master log by reading the whole file,   *)
(* changing one cell of the frame, and writing the whole file back.        *)

StageNames == {"extractor", "similarity_search", "optimizer"}

(* the column a stage writes *)
StageColumn(stage) ==
    CASE stage = "extractor" -> "extraction_sufficed"
      [] stage = "similarity_search" -> "similarity_sufficed"
      [] OTHER -> "selected_sufficed"

(* df.loc[df['request_number'] == query_number, column] = status *)
UpdatedColumn(log, n, column, status) ==
    CASE column = "extraction_sufficed" ->
             [k \in 1..Len(log) |->
                 IF log[k].request_number = n
                 THEN [log[k] EXCEPT !.extraction_sufficed = status]
                 ELSE log[k]]
      [] column = "similarity_sufficed" ->
             [k \in 1..Len(log) |->
                 IF log[k].request_number = n
                 THEN [log[k] EXCEPT !.similarity_sufficed = status]
                 ELSE log[k]]
      [] OTHER -> UpdatedLog(log, n, status)

(* logs of MaxLogRows queries in which every status is still 'no' *)
SharedLogs ==
    {[k \in 1..MaxLogRows |->
         [request_number |-> k, budget |-> b, selected_sufficed |-> "no",
          similarity_sufficed |-> "no", extraction_sufficed |-> "no"]]
        : b \in ScenarioBudgets}

(* every stage is about to update the status of some query *)
ConcurrentInit ==
    /\ pc = "start"
    /\ budget = 0
    /\ query_number = NoneQuery
    /\ similarity_results = <<>>
    /\ catalog = NoCatalog
    /\ price_lookup = <<>>
    /\ combinations = <<>>
    /\ raw_evaluated = 0
    /\ runs = 0
    /\ master_log \in SharedLogs
    /\ combination_files = [n \in AllQueryNumbers |-> NoFile]
    /\ csv_path = ""
    /\ invoked = {}
    /\ reported = "running"
    /\ observed = {}
    /\ printed = NoReport
    /\ similarity_csv = NoCsv
    /\ stages \in [StageNames -> {[at |-> "call", query_number |-> n, status |-> st,
                                   df |-> <<>>]
                                     : n \in AllQueryNumbers, st \in {"yes", "no"}}]

(* df = pd.read_csv(master_log_path) and the assignment to the frame *)
StageRead(stage) ==
    /\ stages[stage].at = "call"
    /\ stages' = [stages EXCEPT
                     ![stage].at = "read",
                     ![stage].df = UpdatedColumn(master_log, stages[stage].query_number,
                                                 StageColumn(stage), stages[stage].status)]
    /\ UNCHANGED <<pc, budget, query_number, similarity_results, catalog, price_lookup,
                   combinations, raw_evaluated, runs, master_log, combination_files,
                   csv_path, invoked, reported, observed, printed, similarity_csv>>

(* df.to_csv(master_log_path, index=False) *)
StageWrite(stage) ==
    /\ stages[stage].at = "read"
    /\ master_log' = stages[stage].df
    /\ stages' = [stages EXCEPT ![stage].at = "returned"]
    /\ UNCHANGED <<pc, budget, query_number, similarity_results, catalog, price_lookup,
                   combinations, raw_evaluated, runs, combination_files, csv_path,
                   invoked, reported, observed, printed, similarity_csv>>

ConcurrentNext ==
    \/ \E stage \in StageNames : StageRead(stage)
    \/ \E stage \in StageNames : StageWrite(stage)

ConcurrentSpec == ConcurrentInit /\ [][ConcurrentNext]_vars

----------------------------------------------------------------------------
(* Vocabulary of the properties: the Cartesian product described by        *)
(* position tuples, independently of the enumeration above.                *)

Generated == pc = "generated"

Categories == 1..Len(similarity_results)

(* one position per category *)
PositionTuples ==
    {idx \in [Categories -> 1..TopK] :
        \A i \in Categories : idx[i] <= Len(similarity_results[i].items)}

RECURSIVE SumFirst(_, _)
SumFirst(f, n) == IF n = 0 THEN 0 ELSE SumFirst(f, n - 1) + f[n]

RECURSIVE ProductFirst(_, _)
ProductFirst(f, n) == IF n = 0 THEN 1 ELSE ProductFirst(f, n - 1) * f[n]

CandidateAt(idx, i) == similarity_results[i].items[idx[i]]

PriceAt(idx, i) ==
    IF CandidateAt(idx, i).catalog_number \in DOMAIN price_lookup
    THEN price_lookup[CandidateAt(idx, i).catalog_number]
    ELSE 0

TuplePrice(idx) ==
    SumFirst([i \in Categories |-> PriceAt(idx, i)], Len(similarity_results))

Affordable(idx) == 0 < TuplePrice(idx) /\ TuplePrice(idx) <= budget

(* combination c picks, in every category, the candidate at idx *)
Picks(c, idx) ==
    /\ Len(c.items) = Len(similarity_results)
    /\ \A i \in Categories :
          /\ c.items[i].catalog_number = CandidateAt(idx, i).catalog_number
          /\ c.items[i].similarity_score = CandidateAt(idx, i).similarity_score
          /\ c.items[i].rank = CandidateAt(idx, i).rank

ProductOfLengths ==
    ProductFirst([i \in Categories |-> Len(similarity_results[i].items)],
                 Len(similarity_results))

(* a before b in lexicographic order, first category most significant *)
LexBefore(a, b) ==
    \E i \in Categories : a[i] < b[i] /\ \A j \in 1..(i - 1) : a[j] = b[j]

PositionsOf(c) == CHOOSE idx \in PositionTuples : Picks(c, idx)

----------------------------------------------------------------------------
(* C1: every combination returned by generate_combinations has             *)
(* 0 < total_price <= budget.                                              *)
C1_WithinBudget ==
    Generated =>
        \A k \in 1..Len(combinations) :
            /\ 0 < combinations[k].total_price
            /\ combinations[k].total_price <= budget

(* a run that kept some tuples and rejected one that costs more than the budget *)
C1_Witness ==
    /\ Generated
    /\ combinations # <<>>
    /\ \E idx \in PositionTuples : TuplePrice(idx) > budget

(* C2: the returned list holds every affordable tuple of the Cartesian     *)
(* product exactly once, and nothing else.                                 *)
C2_Complete ==
    Generated =>
        /\ \A idx \in PositionTuples :
              Cardinality({k \in 1..Len(combinations) : Picks(combinations[k], idx)})
                  = IF Affordable(idx) THEN 1 ELSE 0
        /\ \A k \in 1..Len(combinations) :
              \E idx \in PositionTuples : Picks(combinations[k], idx)

(* two categories, several tuples kept, one of them exactly at the budget, *)
(* and at least one rejected                                               *)
C2_Witness ==
    /\ Generated
    /\ Len(similarity_results) = 2
    /\ Len(combinations) >= 2
    /\ Len(combinations) < raw_evaluated
    /\ \E k \in 1..Len(combinations) : combinations[k].total_price = budget

(* C3: every combination has one item per category, the i-th item carries  *)
(* the i-th category name and is a candidate of that category.             *)
C3_OnePerCategory ==
    Generated =>
        \A k \in 1..Len(combinations) :
            /\ Len(combinations[k].items) = Len(similarity_results)
            /\ \A i \in Categories :
                  /\ combinations[k].items[i].furniture_type
                        = similarity_results[i].furniture_type
                  /\ \E j \in 1..Len(similarity_results[i].items) :
                        LET cand == similarity_results[i].items[j]
                            item == combinations[k].items[i]
                        IN  /\ item.catalog_number = cand.catalog_number
                            /\ item.similarity_score = cand.similarity_score
                            /\ item.rank = cand.rank

(* two different categories with two candidates each, and a result *)
C3_Witness ==
    /\ Generated
    /\ Len(similarity_results) = 2
    /\ \A i \in Categories : Len(similarity_results[i].items) = 2
    /\ combinations # <<>>

(* C4: total_similarity is non-increasing along the returned list.         *)
C4_NonIncreasing ==
    Generated =>
        \A k \in 1..(Len(combinations) - 1) :
            combinations[k].total_similarity >= combinations[k + 1].total_similarity

(* a result whose order differs from the enumeration order: the sort moved *)
(* a later tuple in front of an earlier one                                *)
C4_Witness ==
    /\ Generated
    /\ Len(combinations) >= 3
    /\ combinations[1].total_similarity > combinations[Len(combinations)].total_similarity
    /\ \E k, l \in 1..Len(combinations) :
          k < l /\ LexBefore(PositionsOf(combinations[l]), PositionsOf(combinations[k]))

(* C5: combinations of equal total_similarity keep their enumeration       *)
(* order: lexicographic in the candidates' positions, first category most  *)
(* significant.                                                            *)
C5_TiesInEnumerationOrder ==
    Generated =>
        \A k, l \in 1..Len(combinations) :
            (k < l /\ combinations[k].total_similarity = combinations[l].total_similarity)
                => LexBefore(PositionsOf(combinations[k]), PositionsOf(combinations[l]))

(* a tie between tuples that differ in the first category, in a result the *)
(* sort had to reorder                                                     *)
C5_Witness ==
    /\ Generated
    /\ Len(similarity_results) = 2
    /\ \E k, l \in 1..Len(combinations) :
          /\ k < l
          /\ combinations[k].total_similarity = combinations[l].total_similarity
          /\ PositionsOf(combinations[k])[1] # PositionsOf(combinations[l])[1]
    /\ \E k, l \in 1..Len(combinations) :
          k < l /\ LexBefore(PositionsOf(combinations[l]), PositionsOf(combinations[k]))

C7_CountBound ==
    Generated =>
        /\ Len(combinations) <= ProductOfLengths
        /\ (Len(combinations) = ProductOfLengths)
              <=> (\A idx \in PositionTuples : Affordable(idx))

(* the equality case on a 2 x 2 product *)
C7_Witness ==
    /\ Generated
    /\ Len(similarity_results) = 2
    /\ ProductOfLengths = 4
    /\ Len(combinations) = 4

(* C8: the number of tuples evaluated before the budget filter is the      *)
(* product of the candidate-list lengths, whatever survives.               *)
C8_RawCount ==
    Generated => raw_evaluated = ProductOfLengths

(* four tuples evaluated, none kept *)
C8_Witness ==
    /\ Generated
    /\ Len(similarity_results) = 2
    /\ raw_evaluated = 4
    /\ combinations = <<>>

(* C9: total_price and total_similarity are the sums over the items, and   *)
(* budget_remaining = budget - total_price >= 0.                           *)
C9_Totals ==
    Generated =>
        \A k \in 1..Len(combinations) :
            LET c == combinations[k]
                n == Len(c.items)
            IN  /\ c.total_price = SumFirst([i \in 1..n |-> c.items[i].price], n)
                /\ c.total_similarity
                      = SumFirst([i \in 1..n |-> c.items[i].similarity_score], n)
                /\ c.budget_remaining = budget - c.total_price
                /\ c.budget_remaining >= 0

(* a combination of two differently priced items that leaves money over *)
C9_Witness ==
    /\ Generated
    /\ \E k \in 1..Len(combinations) :
          /\ Len(combinations[k].items) = 2
          /\ combinations[k].items[1].price # combinations[k].items[2].price
          /\ combinations[k].items[1].price > 0
          /\ combinations[k].items[2].price > 0
          /\ combinations[k].budget_remaining > 0

(* C10: a candidate whose catalog_number is not in the master catalog is   *)
(* priced, in every combination, at the estimate for its category and      *)
(* position, also when other candidates have catalog prices.               *)
C10_MissingPriceEstimated ==
    Generated =>
        \A k \in 1..Len(combinations) :
            \A i \in 1..Len(combinations[k].items) :
                LET item == combinations[k].items[i]
                IN  (~catalog.exists \/ item.catalog_number \notin DOMAIN catalog.prices)
                        => item.price
                              = EstimatedPriceForType(item.furniture_type, item.rank - 1)

----------------------------------------------------------------------------
(* Vocabulary of the fallback-price properties.                            *)

(* price_lookup holds the estimates of _get_estimated_prices *)
EstimatedPricing ==
    /\ pc \in {"priced", "generated"}
    /\ ~catalog.exists \/ MatchedItems(similarity_results, catalog.prices) = 0

(* the catalog number at position j of category i occurs nowhere else *)
OccursOnce(i, j) ==
    \A m \in Categories : \A n \in 1..Len(similarity_results[m].items) :
        similarity_results[m].items[n].catalog_number
            = similarity_results[i].items[j].catalog_number
        => (m = i /\ n = j)

StoredEstimate(i, j) == price_lookup[similarity_results[i].items[j].catalog_number]

(* min + (max - min) * (K - r + 1) / K for the 1-based rank r, in cents *)
RankFormula(furniture_type, r) ==
    LET min_price == PriceRangeMin(furniture_type)
        price_range == PriceRangeMax(furniture_type) - min_price
        numerator == 100 * price_range * (TopK - r + 1)
    IN  100 * min_price + ((2 * numerator + TopK) \div (2 * TopK))

(* C11: the value _get_estimated_prices stores for the candidate at        *)
(* 1-based rank r of a category is min + (max - min) * (K - r + 1) / K,    *)
(* so the rank-1 candidate is stored at max_price.                         *)
C11_RankFormulaStored ==
    EstimatedPricing =>
        \A i \in Categories : \A j \in 1..Len(similarity_results[i].items) :
            OccursOnce(i, j)
                => StoredEstimate(i, j)
                      = RankFormula(similarity_results[i].furniture_type, j)

(* C12: within one category the stored estimate never increases with the  *)
(* rank, so the best-ranked candidate has the highest estimate.            *)
C12_EstimateNonIncreasing ==
    EstimatedPricing =>
        \A i \in Categories : \A j, k \in 1..Len(similarity_results[i].items) :
            (j < k /\ OccursOnce(i, j) /\ OccursOnce(i, k))
                => StoredEstimate(i, j) >= StoredEstimate(i, k)

(* a category of three candidates priced by estimate, each cheaper than    *)
(* the one ranked before it                                                *)
C12_Witness ==
    /\ EstimatedPricing
    /\ \E i \in Categories :
          /\ Len(similarity_results[i].items) = TopK
          /\ \A j \in 1..TopK : OccursOnce(i, j)
          /\ \A j \in 1..(TopK - 1) : StoredEstimate(i, j) > StoredEstimate(i, j + 1)

(* the budget cell of the query that was selected *)
SelectedBudgetCell ==
    LET pending_selection == PendingSelection(master_log)
    IN  pending_selection[Len(pending_selection)].budget

(* C15: when the budget resolves to 0, also because parse_budget failed,   *)
(* generate_combinations returns an empty list whatever the store and the  *)
(* price map hold.                                                         *)
C15_ZeroBudgetEmpty ==
    /\ (pc # "start" /\ query_number # NoneQuery /\ ParseBudget(SelectedBudgetCell) = 0)
          => budget = 0
    /\ (Generated /\ budget = 0) => combinations = <<>>

(* a run on a budget cell that does not parse, over a store with a tuple   *)
(* that has a price and a tuple priced 0                                   *)
C15_Witness ==
    /\ Generated
    /\ budget = 0
    /\ SelectedBudgetCell = <<"a", "b", "c">>
    /\ \E idx \in PositionTuples : TuplePrice(idx) > 0
    /\ \E idx \in PositionTuples : TuplePrice(idx) = 0
    /\ raw_evaluated > 0

----------------------------------------------------------------------------
(* Vocabulary of the properties of main().                                 *)

(* main() has returned after calling generate_combinations, and its       *)
(* status update was written                                               *)
RunEnded ==
    /\ pc = "done"
    /\ "generate_combinations" \in invoked
    /\ "update_selection_status_failed" \notin invoked

(* the request numbers check_master_query_log can still select *)
PendingNumbers(log) ==
    {PendingSelection(log)[k].request_number : k \in 1..Len(PendingSelection(log))}

NothingPersisted == \A n \in AllQueryNumbers : combination_files[n] = NoFile

(* the store and the prices of the worked example *)
ScenarioStore ==
    /\ Len(similarity_results) = 2
    /\ similarity_results[1] =
          [furniture_type |-> "sofa",
           items |-> << [catalog_number |-> 201, similarity_score |-> 9, rank |-> 1],
                        [catalog_number |-> 202, similarity_score |-> 8, rank |-> 2] >>]
    /\ similarity_results[2] =
          [furniture_type |-> "table",
           items |-> << [catalog_number |-> 301, similarity_score |-> 7, rank |-> 1] >>]
    /\ DOMAIN price_lookup = {201, 202, 301}
    /\ price_lookup[201] = 100000
    /\ price_lookup[202] = 120000
    /\ price_lookup[301] = 50000

ScenarioA == ScenarioStore /\ budget = 160000

ScenarioB == ScenarioStore /\ budget = 10000

C14_Distinguishable ==
    \A a, b \in observed :
        (a.kind = "valid_empty" /\ b.kind = "failed")
            => ~(a.returned = b.returned /\ a.status = b.status)

(* C16: after main() ran the optimizer on a pending query, the query is    *)
(* done when combinations were found and marked as without combination     *)
(* otherwise, and in both cases check_master_query_log no longer selects   *)
(* it.                                                                     *)
C16_LeavesPending ==
    RunEnded =>
        /\ (combinations # <<>>) <=> (SelectionStatus(master_log, query_number) = "yes")
        /\ query_number \notin PendingNumbers(master_log)

(* C17: selected_sufficed is 'yes' exactly when save_combinations_to_csv   *)
(* persisted at least one combination row.                                 *)
C17_YesIffPersisted ==
    RunEnded =>
        (SelectionStatus(master_log, query_number) = "yes"
            <=> combination_files[query_number].rows # <<>>)

(* C18: in scenario B (budget $100) the run yields no combination, main()  *)
(* reports that none was found and records 'no', and no row is written:    *)
(* save_combinations_to_csv is not invoked.                                *)
C18_ScenarioB ==
    /\ (ScenarioB /\ pc = "generated") => combinations = <<>>
    /\ (ScenarioB /\ pc = "done") =>
          /\ combinations = <<>>
          /\ reported = "no_combinations"
          /\ SelectionStatus(master_log, query_number) = "no"
          /\ "save_combinations_to_csv" \notin invoked
          /\ NothingPersisted

(* scenario B run to the end, all three tuples having been evaluated *)
C18_Witness ==
    /\ ScenarioB
    /\ pc = "done"
    /\ raw_evaluated = 2
    /\ "update_selection_status" \in invoked

(* C19: in scenario A (budget $1,600) generate_combinations returns        *)
(* exactly (201, 301), with total_price 1500, total_similarity 1.6 and     *)
(* budget_remaining 100; (202, 301) is rejected; the combination is        *)
(* written with combination_rank 1.                                        *)
C19_ScenarioA ==
    /\ (ScenarioA /\ pc \in {"generated", "printed", "saved", "done"}) =>
          /\ Len(combinations) = 1
          /\ Len(combinations[1].items) = 2
          /\ combinations[1].items[1].catalog_number = 201
          /\ combinations[1].items[2].catalog_number = 301
          /\ combinations[1].total_price = 150000
          /\ combinations[1].total_similarity = 16
          /\ combinations[1].budget_remaining = 10000
    /\ (ScenarioA /\ pc \in {"saved", "done"} /\ csv_path = SavedPath) =>
          LET rows == combination_files[query_number].rows
          IN  /\ Len(rows) = 2
              /\ \A k \in 1..Len(rows) : rows[k].combination_rank = 1
              /\ rows[1].catalog_number = 201
              /\ rows[2].catalog_number = 301

(* scenario A run to the end and saved, both tuples having been evaluated *)
C19_Witness ==
    /\ ScenarioA
    /\ pc = "done"
    /\ csv_path = SavedPath
    /\ raw_evaluated = 2
    /\ TuplePrice([i \in Categories |-> IF i = 1 THEN 2 ELSE 1]) = 170000

(* C20: the saved file holds one row per combination and category, in      *)
(* ranked order: combination_rank runs from 1 to n, the rows of one        *)
(* combination repeat its rank and totals, and item_rank is the rank the   *)
(* candidate has in the store.                                             *)
C20_SavedRows ==
    (pc \in {"saved", "done"} /\ csv_path = SavedPath) =>
        LET rows == combination_files[query_number].rows
            n == Len(combinations)
            m == Len(similarity_results)
        IN  /\ Len(rows) = n * m
            /\ \A k \in 1..n : \A i \in 1..m :
                  LET row == rows[(k - 1) * m + i]
                      idx == PositionsOf(combinations[k])
                  IN  /\ row.combination_rank = k
                      /\ row.total_price = combinations[k].total_price
                      /\ row.total_similarity = combinations[k].total_similarity
                      /\ row.budget_remaining = combinations[k].budget_remaining
                      /\ row.furniture_type = similarity_results[i].furniture_type
                      /\ row.catalog_number = CandidateAt(idx, i).catalog_number
                      /\ row.similarity_score = CandidateAt(idx, i).similarity_score
                      /\ row.item_rank = CandidateAt(idx, i).rank
                      /\ row.price = PriceAt(idx, i)

(* two combinations over two categories saved as four rows *)
C20_Witness ==
    /\ pc = "done"
    /\ csv_path = SavedPath
    /\ Len(combinations) = 2
    /\ Len(similarity_results) = 2
    /\ Len(combination_files[query_number].rows) = 4
    /\ combination_files[query_number].rows[3].item_rank = 2

(* C21: print_top_combinations(combinations, n) renders the first         *)
(* min(n, len(combinations)) combinations of the ranked list, in ranked    *)
(* order and numbered from 1, and no other.                                *)
C21_TopRendered ==
    "print_top_combinations" \in invoked =>
        LET shown == IF printed.top_n < Len(combinations)
                     THEN printed.top_n ELSE Len(combinations)
        IN  /\ Len(printed.entries) = shown
            /\ \A i \in 1..shown :
                  /\ printed.entries[i].number = i
                  /\ printed.entries[i].total_price = combinations[i].total_price
                  /\ printed.entries[i].total_similarity = combinations[i].total_similarity
                  /\ printed.entries[i].budget_remaining = combinations[i].budget_remaining
                  /\ printed.entries[i].items = combinations[i].items

(* a report of length 1 over a ranked list of two combinations *)
C21_Witness ==
    /\ pc = "shown"
    /\ printed.top_n = 1
    /\ Len(combinations) = 2
    /\ Len(printed.entries) = 1
    /\ printed.entries[1].items = combinations[1].items
    /\ combinations[1].items # combinations[2].items

(* C22: a call of generate_combinations leaves the candidate store, the   *)
(* budget and the price map as they were, whether it returns combinations, *)
(* an empty list, or meets an internal error.                              *)
C22_ReadOnly ==
    [][runs' = runs + 1 =>
          /\ similarity_results' = similarity_results
          /\ budget' = budget
          /\ price_lookup' = price_lookup]_vars

(* generate_combinations has returned combinations under a budget that     *)
(* exceeds the price of the best one                                       *)
C22_Witness ==
    /\ pc = "generated"
    /\ runs = 1
    /\ combinations # <<>>
    /\ combinations[1].total_price > 0
    /\ budget > combinations[1].total_price

(* generate_combinations has met an internal error *)
C22_WitnessError ==
    /\ pc = "generated"
    /\ runs = 1
    /\ Raises(similarity_results)
    /\ combinations = <<>>

----------------------------------------------------------------------------
(* Vocabulary of the load property.                                        *)

(* the rows of one image in the file read last, in file order *)
RowsOfImage(image_name) ==
    SelectSeq(similarity_csv.rows, LAMBDA r : r.image_name = image_name)

ImagesInFile == {similarity_csv.rows[k].image_name : k \in 1..Len(similarity_csv.rows)}

(* C23: after a successful load_similarity_results every category of the   *)
(* store has between 1 and 3 candidates, the first rows of its image in    *)
(* the file with rank and similarity_score as in the file, and the store   *)
(* holds the categories of that file only.                                 *)
C23_LoadedStore ==
    pc = "loaded" =>
        /\ Len(similarity_results) = Cardinality(ImagesInFile)
        /\ \A i \in Categories :
              LET items == similarity_results[i].items
              IN  /\ 1 <= Len(items) /\ Len(items) <= 3
                  /\ \E image_name \in ImagesInFile :
                        LET rows == RowsOfImage(image_name)
                        IN  /\ similarity_results[i].furniture_type
                                  = FurnitureTypeOf(image_name)
                            /\ Len(items) = IF Len(rows) < 3 THEN Len(rows) ELSE 3
                            /\ \A j \in 1..Len(items) :
                                  /\ items[j].catalog_number = rows[j].catalog_number
                                  /\ items[j].similarity_score = rows[j].similarity_score
                                  /\ items[j].rank = rows[j].rank
        /\ \A i, k \in Categories :
              i # k => similarity_results[i].furniture_type
                          # similarity_results[k].furniture_type

(* a file with four matches of the sofa image, of which three are kept,    *)
(* loaded over the results of a file that had a table                      *)
C23_Witness ==
    /\ pc = "loaded"
    /\ \E k \in 1..Len(similarity_csv.earlier) :
          similarity_csv.earlier[k].image_name = "table_extracted_grayscale.png"
    /\ Len(RowsOfImage("sofa_extracted_grayscale.png")) = 4
    /\ Len(similarity_results) = 1
    /\ Len(similarity_results[1].items) = 3
    /\ similarity_results[1].items[3].rank = 3

----------------------------------------------------------------------------
TupleSimilarity(idx) ==
    SumFirst([i \in Categories |-> CandidateAt(idx, i).similarity_score],
             Len(similarity_results))

(* C24: the first combination of a non-empty result has the highest        *)
(* total_similarity of all tuples of the Cartesian product with            *)
(* 0 < total_price <= budget.                                              *)
C24_BestFirst ==
    (Generated /\ combinations # <<>>) =>
        \A idx \in PositionTuples :
            Affordable(idx) => TupleSimilarity(idx) <= combinations[1].total_similarity

(* the best affordable tuple is not the first affordable tuple of the      *)
(* enumeration, and a tuple at least as similar is not affordable          *)
C24_Witness ==
    /\ Generated
    /\ Len(combinations) >= 2
    /\ \E idx \in PositionTuples :
          /\ Affordable(idx)
          /\ LexBefore(idx, PositionsOf(combinations[1]))
          /\ TupleSimilarity(idx) < combinations[1].total_similarity
    /\ \E idx \in PositionTuples :
          /\ ~Affordable(idx)
          /\ TupleSimilarity(idx) >= combinations[1].total_similarity

(* C26: every price the fallback estimator produces for a candidate lies   *)
(* within the range of its category: min_price <= price <= max_price.      *)
C26_EstimateWithinRange ==
    EstimatedPricing =>
        \A i \in Categories : \A j \in 1..Len(similarity_results[i].items) :
            OccursOnce(i, j) =>
                /\ 100 * PriceRangeMin(similarity_results[i].furniture_type)
                      <= StoredEstimate(i, j)
                /\ StoredEstimate(i, j)
                      <= 100 * PriceRangeMax(similarity_results[i].furniture_type)

(* C27: under fully estimated pricing every item of every combination is   *)
(* priced at the estimate for its own category and position, also when     *)
(* its catalog_number occurs in another category.                          *)
C27_OwnCategoryEstimate ==
    (Generated /\ EstimatedPricing) =>
        \A k \in 1..Len(combinations) : \A i \in 1..Len(combinations[k].items) :
            combinations[k].items[i].price
                = EstimatedPriceForType(combinations[k].items[i].furniture_type,
                                        combinations[k].items[i].rank - 1)

----------------------------------------------------------------------------
(* the budgets the logs of Init resolve to *)
BudgetValues == {ParseBudget(budget_str) : budget_str \in BudgetStrings}

(* a combination without the field that depends on the budget *)
WithoutRemaining(list) ==
    [k \in 1..Len(list) |-> [items |-> list[k].items,
                             total_price |-> list[k].total_price,
                             total_similarity |-> list[k].total_similarity]]

(* C28: for the same candidates and prices and a budget B2 >= budget, the  *)
(* list returned is the list returned for B2 restricted to the             *)
(* combinations with total_price <= budget, in the same order and with     *)
(* the same totals.                                                        *)
C28_MonotoneInBudget ==
    Generated =>
        \A b2 \in BudgetValues :
            budget <= b2 =>
                LET wider == GeneratedCombinations(similarity_results, price_lookup, b2)
                IN  /\ WithoutRemaining(combinations)
                          = SelectSeq(WithoutRemaining(wider),
                                      LAMBDA c : c.total_price <= budget)
                    /\ \A k \in 1..Len(combinations) :
                          combinations[k].budget_remaining
                              = budget - combinations[k].total_price

(* two combinations under $1,000 between which the list returned for      *)
(* $3,500 holds a combination that costs more                              *)
C28_Witness ==
    /\ Generated
    /\ budget = 100000
    /\ Len(combinations) >= 2
    /\ LET wider == GeneratedCombinations(similarity_results, price_lookup, 350000)
       IN  \E i, j, k \in 1..Len(wider) :
              /\ i < j /\ j < k
              /\ wider[i].total_price <= budget
              /\ wider[j].total_price > budget
              /\ wider[k].total_price <= budget

----------------------------------------------------------------------------
----------------------------------------------------------------------------
(* query n of the log has a combination within its budget *)
HasAffordableCombination(n) ==
    /\ n <= Len(master_log)
    /\ ~BudgetColumnNumeric(master_log)
    /\ GeneratedCombinations(LoadedResults(QueryFile.rows), ListedCatalog.prices,
                             ParseBudget(master_log[n].budget)) # <<>>

(* C25: under repeated runs of main() over one log, every pending query    *)
(* that has an affordable combination is eventually set to 'yes', also     *)
(* when a later pending query yields no combination.                       *)
C25_EventuallyProcessed ==
    \A n \in AllQueryNumbers :
        (n \in PendingNumbers(master_log) /\ HasAffordableCombination(n))
            ~> (SelectionStatus(master_log, n) = "yes")

----------------------------------------------------------------------------
(* the value the log holds in a stage's column for the stage's query *)
CellOf(log, stage) ==
    LET row == log[CHOOSE k \in 1..Len(log) :
                      log[k].request_number = stages[stage].query_number]
    IN  CASE StageColumn(stage) = "extraction_sufficed" -> row.extraction_sufficed
          [] StageColumn(stage) = "similarity_sufficed" -> row.similarity_sufficed
          [] OTHER -> row.selected_sufficed

(* C30: when the status updates of concurrently running stages interleave, *)
(* the final log holds the write of every stage.                           *)
C30_NoLostUpdate ==
    (\A stage \in DOMAIN stages : stages[stage].at = "returned") =>
        \A stage \in DOMAIN stages : CellOf(master_log, stage) = stages[stage].status

====
